---- MODULE Spec2Model ----
(***************************************************************************)
(* Feed polling and delivery pipeline of feeedy: the novelty filter        *)
(* (feed_manager.get_new_entries), the per-source poll                     *)
(* (feed_manager.process_feed), the poll cycle                             *)
(* (feed_manager.check_all_feeds), the startup load                        *)
(* (feed_manager.populate_initial_posts) and the storage operations of     *)
(* db.py they use (feeds, last_seen, users, unread_posts).                 *)
(*                                                                         *)
(* Strings of the program are TLA+ strings; Python's None is the value     *)
(* None below.  A feed entry carries, besides the fields the code reads,   *)
(* the number seq: its position in the feed's own publication order (a     *)
(* larger seq is a newer entry).  seq is never read by the program.        *)
(***************************************************************************)
EXTENDS Integers, Sequences, FiniteSets, TLC

\* ------------------------------------------------------------------ bounds
MaxSeq == 3          \* entries published upstream, over all sources
MaxFeedLen == 3      \* entries one fetch of a source returns
MaxFeeds == 2        \* rows of the feeds table
MaxPosts == 5        \* rows ever inserted into unread_posts
MaxLimit == 3        \* largest limit handed to trim_unread_posts
TicksPerSecond == 2  \* clock ticks in one second
MaxText == 2         \* characters of a post title and of a keyword
MaxKeywords == 2     \* keywords one subscriber stores

Cats == {"c1", "c2"}
Urls == {"u1"}
Uids == {1}
Shapes == {"guid", "link", "untitled", "bare"}

None == "<None>"

\* ------------------------------------------------------- upstream entries
GuidOf == <<"g1", "g2", "g3", "g4", "g5", "g6", "g7", "g8">>
LinkOf == <<"l1", "l2", "l3", "l4", "l5", "l6", "l7", "l8">>
TitleOf == <<"t1", "t2", "t3", "t4", "t5", "t6", "t7", "t8">>

\* The parsed entry number n of an upstream document, by which of the keys
\* id / link / title the document gives it.
MkEntry(n, shape) ==
    CASE shape = "guid"     -> [seq |-> n, id |-> GuidOf[n], link |-> LinkOf[n], title |-> TitleOf[n]]
      [] shape = "link"     -> [seq |-> n, id |-> None, link |-> LinkOf[n], title |-> TitleOf[n]]
      [] shape = "untitled" -> [seq |-> n, id |-> None, link |-> None, title |-> ""]
      [] shape = "bare"     -> [seq |-> n, id |-> None, link |-> None, title |-> None]

\* Python truthiness of an optional string.
Truthy(s) == s # None /\ s # ""

\* entry.get("id") or entry.get("link") or entry.get("title", "unknown")
get_entry_id(entry) ==
    IF Truthy(entry.id) THEN entry.id
    ELSE IF Truthy(entry.link) THEN entry.link
    ELSE IF entry.title # None THEN entry.title
    ELSE "unknown"


VARIABLES
    feeds,           \* table feeds: sequence of <<cat, url>> rows, in insertion order
    users,           \* table users: a function from the uids that have a row to their row
    last_seen,       \* table last_seen: url -> last_entry_id, or None when the url has no row
    unread_posts,    \* table unread_posts: the set of its rows
    next_id,         \* next AUTOINCREMENT id of unread_posts
    clock,           \* the wall clock (datetime.utcnow), in ticks
    upstream,        \* url -> [entries: the document the host serves, newest first; up: host answers 200]
    next_seq,        \* publication number of the next upstream entry
    pc,              \* "cycle" while check_all_feeds runs, else "idle"
    queue,           \* rows of all_feeds that the running check_all_feeds has not processed yet
    runs_unchanged,  \* history: poll cycles started since the upstream or the registry last changed (capped at 2)
    wm_seq,          \* history: url -> seq of the entry whose id was last written to last_seen (0: never)
    last,            \* history: what the handler that ran in the last step did (NoPoll: none ran)
    last_trim,       \* history: the most recent trim_unread_posts call and the rows its pair held before
    all_feeds,       \* the list check_all_feeds read from the registry when it started (<<>> when none runs)
    calls,           \* history: the process_feed calls of the running check_all_feeds, in order
    manual,          \* the manual_feed_check started by /checkfeeds: where it is and its local variables
    g4f_initialized  \* ai_summary.g4f_initialized

vars == <<feeds, users, last_seen, unread_posts, next_id, clock, upstream, next_seq,
          pc, queue, runs_unchanged, wm_seq, last, last_trim, all_feeds, calls, manual,
          g4f_initialized>>

NoPoll == [op |-> "none"]
NoTrim == [uid |-> 0]
NoManual == [pc |-> "idle"]

\* ---------------------------------------------------------------- db.py
\* SELECT last_entry_id FROM last_seen WHERE url = ?  (row[0] if row else None)
get_last_seen(table, url) == table[url]

\* INSERT OR REPLACE INTO last_seen (url, last_entry_id, last_checked)
update_last_seen(table, url, entry_id) == [table EXCEPT ![url] = entry_id]

\* SELECT cat, url FROM feeds
get_all_feeds == feeds

\* SELECT * FROM users, each row as the dict get_all_users builds
get_all_users == {[uid |-> users[u].uid, uname |-> users[u].uname,
                   cats |-> users[u].cats, keywords |-> users[u].keywords] : u \in DOMAIN users}

\* ------------------------------------------------------- user_manager.py
\* [user for user in all_users if cat in user["subscribed_cats"]]; the
\* enclosing try/except turns the KeyError of a dict that lacks the key
\* into the empty list.
get_users_by_cat(cat) ==
    LET all_users == get_all_users IN
    IF \E user \in all_users : "subscribed_cats" \notin DOMAIN user
    THEN {}
    ELSE {user \in all_users : cat \in user["subscribed_cats"]}

\* Texts handed to the keyword filter are sequences of characters.
Chars == {"a", "A", "b"}

Texts == UNION {[1..n -> Chars] : n \in 0..MaxText}

Summaries == {t \in Texts : Len(t) <= 1}

\* the keywords a subscriber is given to add (a slash command takes no
\* empty string)
Keywords == {t \in Texts : Len(t) \in 1..2}

\* str.lower()
lower(text) == [i \in DOMAIN text |-> IF text[i] = "A" THEN "a" ELSE text[i]]

\* Python's `needle in haystack` for two str values
contains(haystack, needle) ==
    \E i \in 0..(Len(haystack) - Len(needle)) :
        SubSeq(haystack, i + 1, i + Len(needle)) = needle

NoUser == [uid |-> 0]

\* db.get_user(uid): the row as a dict, or None (NoUser) when there is no
\* row or when the storage raises (the except of lines 113-115).
get_user(uid, storage_ok) ==
    IF storage_ok /\ uid \in DOMAIN users
    THEN [uid |-> users[uid].uid, uname |-> users[uid].uname, cats |-> users[uid].cats,
          keywords |-> users[uid].keywords]
    ELSE NoUser

\* user["keywords"] if user else []
get_user_keywords(uid, storage_ok) ==
    LET user == get_user(uid, storage_ok) IN
    IF user # NoUser THEN user["keywords"] ELSE <<>>

\* should_show_post with `return False` for an empty keyword list
should_show_post_fail_closed(uid, title, summary, storage_ok) ==
    LET keywords == get_user_keywords(uid, storage_ok) IN
    IF keywords = <<>> THEN FALSE
    ELSE LET content == lower(title \o <<" ">> \o summary)
         IN  \E i \in DOMAIN keywords : contains(content, lower(keywords[i]))

\* should_show_post without the .lower() of the content
should_show_post_case_sensitive(uid, title, summary, storage_ok) ==
    LET keywords == get_user_keywords(uid, storage_ok) IN
    IF keywords = <<>> THEN TRUE
    ELSE LET content == title \o <<" ">> \o summary
         IN  \E i \in DOMAIN keywords : contains(content, lower(keywords[i]))

\* should_show_post(uid, title, summary): content is f"{title} {summary}".lower()
should_show_post(uid, title, summary, storage_ok) ==
    LET keywords == get_user_keywords(uid, storage_ok) IN
    IF keywords = <<>> THEN TRUE
    ELSE LET content == lower(title \o <<" ">> \o summary)
         IN  \E i \in DOMAIN keywords : contains(content, lower(keywords[i]))

\* ------------------------------------------------------- feed_manager.py
\* The response of the host: None (NoFeed) on a non-200 status, a timeout or a
\* network error, else the parsed document's entries (a malformed document
\* parses to whatever entries feedparser could read, possibly none).
NoFeed == [fetched |-> FALSE, entries |-> <<>>]

\* fetch_feed parsing the body of any response, whatever its status
fetch_feed_ignoring_status(feed_url) ==
    [fetched |-> TRUE, entries |-> upstream[feed_url].entries]

fetch_feed(feed_url) ==
    IF upstream[feed_url].up
    THEN [fetched |-> TRUE, entries |-> upstream[feed_url].entries]
    ELSE NoFeed

\* The loop of get_new_entries over feed.entries: entries is the part not
\* yet visited, new_entries the list built so far.
RECURSIVE walk_until_match(_, _, _)
walk_until_match(entries, last_seen_id, new_entries) ==
    IF entries = <<>> THEN new_entries
    ELSE LET entry == Head(entries)
             entry_id == get_entry_id(entry)
         IN  IF last_seen_id = None THEN Append(new_entries, entry)
             ELSE IF entry_id = last_seen_id THEN new_entries
             ELSE walk_until_match(Tail(entries), last_seen_id, Append(new_entries, entry))

RECURSIVE walk_no_seed_break(_, _, _)
walk_no_seed_break(entries, last_seen_id, new_entries) ==
    IF entries = <<>> THEN new_entries
    ELSE LET entry == Head(entries)
             entry_id == get_entry_id(entry)
         IN  IF entry_id = last_seen_id THEN new_entries
             ELSE walk_no_seed_break(Tail(entries), last_seen_id, Append(new_entries, entry))

RECURSIVE walk_append_first(_, _, _)
walk_append_first(entries, last_seen_id, new_entries) ==
    IF entries = <<>> THEN new_entries
    ELSE LET entry == Head(entries)
             entry_id == get_entry_id(entry)
         IN  IF last_seen_id = None THEN Append(new_entries, entry)
             ELSE IF entry_id = last_seen_id THEN Append(new_entries, entry)
             ELSE walk_append_first(Tail(entries), last_seen_id, Append(new_entries, entry))

\* new_entries with the seed-state break (lines 67-69) left out
new_entries_no_seed_break(last_seen_id, entries) ==
    walk_no_seed_break(entries, last_seen_id, <<>>)

\* new_entries with the break taken after the first append in every case
new_entries_break_early(last_seen_id, entries) ==
    IF entries = <<>> THEN <<>>
    ELSE IF get_entry_id(entries[1]) = last_seen_id THEN <<>>
    ELSE <<entries[1]>>

\* new_entries with the append (line 75) placed before the comparison (line 72)
new_entries_append_first(last_seen_id, entries) ==
    walk_append_first(entries, last_seen_id, <<>>)

\* new_entries as lines 56-76 build it
new_entries_of(last_seen_id, entries) ==
    walk_until_match(entries, last_seen_id, <<>>)

\* latest_id as lines 57-64 set it: the id of the first entry visited
latest_id_of(entries) ==
    IF entries = <<>> THEN None ELSE get_entry_id(entries[1])

\* What the storage does during one call: read_ok, its SELECTs succeed;
\* write_ok, its INSERTs and DELETEs succeed.  Each db function catches the
\* error of a failed statement and returns its default.
Storages == [read_ok : BOOLEAN, write_ok : BOOLEAN]
StorageUp == [read_ok |-> TRUE, write_ok |-> TRUE]

\* get_new_entries with update_last_seen called whenever there is a latest_id
get_new_entries_always_writes(table, feed_url, entries, storage) ==
    LET last_seen_id == IF storage.read_ok THEN get_last_seen(table, feed_url) ELSE None IN
    IF entries = <<>>
    THEN [new_entries |-> <<>>, last_seen |-> table, last_seen_id |-> last_seen_id,
          updated |-> FALSE]
    ELSE LET new_entries == new_entries_of(last_seen_id, entries)
             latest_id == latest_id_of(entries)
             updated == Truthy(latest_id)
         IN  [new_entries |-> new_entries,
              last_seen |-> IF updated /\ storage.write_ok
                            THEN update_last_seen(table, feed_url, latest_id)
                            ELSE table,
              last_seen_id |-> last_seen_id,
              updated |-> updated]

\* get_new_entries(feed_url, feed): the list it returns, the last_seen
\* table it leaves, the watermark get_last_seen gave it (None when the
\* SELECT failed) and whether it called update_last_seen.
get_new_entries(table, feed_url, entries, storage) ==
    LET last_seen_id == IF storage.read_ok THEN get_last_seen(table, feed_url) ELSE None IN
    IF entries = <<>>
    THEN [new_entries |-> <<>>, last_seen |-> table, last_seen_id |-> last_seen_id,
          updated |-> FALSE]
    ELSE LET new_entries == new_entries_of(last_seen_id, entries)
             latest_id == latest_id_of(entries)
             updated == Truthy(latest_id) /\ new_entries # <<>>
         IN  [new_entries |-> new_entries,
              last_seen |-> IF updated /\ storage.write_ok
                            THEN update_last_seen(table, feed_url, latest_id)
                            ELSE table,
              last_seen_id |-> last_seen_id,
              updated |-> updated]

\* The try block of process_feed (lines 91-149): the value it returns
\* unless it raises, the list get_new_entries gave it and the tables it
\* leaves.  When the list is not empty, line 106 looks up
\* user_manager.get_users_by_category, a name user_manager.py does not
\* define (it defines get_users_by_cat): the AttributeError leaves the try
\* block at that line, before the dispatch loop of lines 109-147.
process_feed_body(table, category, feed_url, storage) ==
    LET feed == fetch_feed(feed_url) IN
    IF ~feed.fetched
    THEN [ret |-> 0, new_entries |-> <<>>, last_seen |-> table,
          unread_posts |-> unread_posts, raised |-> FALSE, updated |-> FALSE]
    ELSE LET r == get_new_entries(table, feed_url, feed.entries, storage) IN
         IF r.new_entries = <<>>
         THEN [ret |-> 0, new_entries |-> <<>>, last_seen |-> r.last_seen,
               unread_posts |-> unread_posts, raised |-> FALSE, updated |-> r.updated]
         ELSE [ret |-> Len(r.new_entries), new_entries |-> r.new_entries,
               last_seen |-> r.last_seen, unread_posts |-> unread_posts, raised |-> TRUE,
               updated |-> r.updated]

\* process_feed without its handler: what the try block raises reaches the caller
process_feed_without_handler(table, category, feed_url, storage) ==
    LET body == process_feed_body(table, category, feed_url, storage) IN
    [ret |-> IF body.raised THEN 0 ELSE body.ret, new_entries |-> body.new_entries,
     last_seen |-> body.last_seen, unread_posts |-> body.unread_posts,
     raised |-> body.raised, updated |-> body.updated, propagated |-> body.raised]

\* process_feed(category, feed_url, bot_instance) run on a last_seen table:
\* the handler of lines 151-153 turns whatever the try block raises into
\* the return value 0.
process_feed(table, category, feed_url, storage) ==
    LET body == process_feed_body(table, category, feed_url, storage) IN
    [ret |-> IF body.raised THEN 0 ELSE body.ret, new_entries |-> body.new_entries,
     last_seen |-> body.last_seen, unread_posts |-> body.unread_posts,
     raised |-> body.raised, updated |-> body.updated, propagated |-> FALSE]

\* SELECT url FROM feeds WHERE cat = ?  ([] when the SELECT fails)
get_feeds_by_category(cat, storage) ==
    IF storage.read_ok
    THEN LET rows == SelectSeq(feeds, LAMBDA row : row[1] = cat)
         IN  [i \in DOMAIN rows |-> rows[i][2]]
    ELSE <<>>

\* The loop `for ...: new_count = await process_feed(...)` of check_all_feeds
\* (lines 197-202) and of manual_feed_check (lines 298-301) over rows of
\* <<category, feed_url>>, run on a last_seen table: one record per call of
\* process_feed (marked: the entries get_new_entries gave it), the table it
\* leaves, and whether a call raised into the loop.
RECURSIVE poll_each(_, _, _, _)
poll_each(rows, table, storage, polled) ==
    IF rows = <<>>
    THEN [polled |-> polled, last_seen |-> table, propagated |-> FALSE]
    ELSE LET call(p) == [category |-> Head(rows)[1], feed_url |-> Head(rows)[2],
                         new_entries |-> p.new_entries, marked |-> Len(p.new_entries),
                         ret |-> p.ret, raised |-> p.raised, propagated |-> p.propagated]
             polled_with(p) ==
                 IF p.propagated
                 THEN [polled |-> Append(polled, call(p)), last_seen |-> p.last_seen,
                       propagated |-> TRUE]
                 ELSE poll_each(Tail(rows), p.last_seen, storage, Append(polled, call(p)))
         IN  polled_with(process_feed(table, Head(rows)[1], Head(rows)[2], storage))

\* total_new += new_count
RECURSIVE total_new(_)
total_new(polled) == IF polled = <<>> THEN 0 ELSE Head(polled).ret + total_new(Tail(polled))

NotFound == [error |-> "Feed URL not found"]
Failed == [error |-> "str(e)"]

\* manual_feed_check that polls a URL it did not find in the registry
manual_feed_check_unchecked_url(category, feed_url, storage) ==
    LET all == IF storage.read_ok THEN get_all_feeds ELSE <<>> IN
    IF feed_url # None
    THEN LET listed == {i \in DOMAIN all : all[i][2] = feed_url}
             cat == IF category # None THEN category
                    ELSE IF listed # {} THEN all[CHOOSE i \in listed : \A j \in listed : i <= j][1]
                    ELSE None
             reply(r) ==
                 [result |-> IF r.propagated THEN Failed
                             ELSE [success |-> TRUE, category |-> cat, feed_url |-> feed_url,
                                   new_entries |-> r.polled[1].ret],
                  polled |-> r.polled, last_seen |-> r.last_seen, propagated |-> FALSE]
         IN  reply(poll_each(<<<<cat, feed_url>>>>, last_seen, storage, <<>>))
    ELSE IF category # None
    THEN LET urls == get_feeds_by_category(category, storage)
             reply(r) ==
                 [result |-> IF r.propagated THEN Failed
                             ELSE [success |-> TRUE, category |-> category,
                                   feeds_checked |-> Len(urls),
                                   new_entries |-> total_new(r.polled)],
                  polled |-> r.polled, last_seen |-> r.last_seen, propagated |-> FALSE]
         IN  reply(poll_each([i \in DOMAIN urls |-> <<category, urls[i]>>], last_seen,
                             storage, <<>>))
    ELSE LET reply(r) ==
                 [result |-> [success |-> TRUE, message |-> "All feeds checked"],
                  polled |-> r.polled, last_seen |-> r.last_seen, propagated |-> FALSE]
         IN  reply(poll_each(all, last_seen, storage, <<>>))

\* manual_feed_check(category, feed_url, bot_instance): the dict it returns,
\* its calls of process_feed, the last_seen table it leaves and whether it
\* raises.  A falsy argument is None.  Its handler (lines 315-317) and the
\* handler of check_all_feeds (lines 206-207) catch what a call of
\* process_feed would raise.
manual_feed_check(category, feed_url, storage) ==
    LET all == IF storage.read_ok THEN get_all_feeds ELSE <<>> IN
    IF feed_url # None
    THEN LET listed == {i \in DOMAIN all : all[i][2] = feed_url}
             cat == IF category # None THEN category
                    ELSE IF listed # {} THEN all[CHOOSE i \in listed : \A j \in listed : i <= j][1]
                    ELSE None
         IN  IF cat = None
             THEN [result |-> NotFound, polled |-> <<>>, last_seen |-> last_seen,
                   propagated |-> FALSE]
             ELSE LET reply(r) ==
                          [result |-> IF r.propagated THEN Failed
                                      ELSE [success |-> TRUE, category |-> cat,
                                            feed_url |-> feed_url,
                                            new_entries |-> r.polled[1].ret],
                           polled |-> r.polled, last_seen |-> r.last_seen,
                           propagated |-> FALSE]
                  IN  reply(poll_each(<<<<cat, feed_url>>>>, last_seen, storage, <<>>))
    ELSE IF category # None
    THEN LET urls == get_feeds_by_category(category, storage)
             reply(r) ==
                 [result |-> IF r.propagated THEN Failed
                             ELSE [success |-> TRUE, category |-> category,
                                   feeds_checked |-> Len(urls),
                                   new_entries |-> total_new(r.polled)],
                  polled |-> r.polled, last_seen |-> r.last_seen, propagated |-> FALSE]
         IN  reply(poll_each([i \in DOMAIN urls |-> <<category, urls[i]>>], last_seen,
                             storage, <<>>))
    ELSE LET reply(r) ==
                 [result |-> [success |-> TRUE, message |-> "All feeds checked"],
                  polled |-> r.polled, last_seen |-> r.last_seen, propagated |-> FALSE]
         IN  reply(poll_each(all, last_seen, storage, <<>>))

\* The categories of populate_initial_posts whose users reach line 459:
\* users is get_users_by_cat(cat); a category without users is skipped
\* (line 437), and line 457 reads user["user_id"], whose KeyError (caught at
\* line 474) skips the source before any add_unread_post.
populate_reached ==
    LET cats == {get_all_feeds[i][1] : i \in DOMAIN get_all_feeds}
        served == {cat \in cats : get_users_by_cat(cat) # {}}
    IN  {cat \in served : \A user \in get_users_by_cat(cat) : "user_id" \in DOMAIN user}

\* populate_initial_posts(bot_instance) when no category reaches line 459:
\* total_posts stays 0 and unread_posts is not written.
populate_initial_posts ==
    [ret |-> 0, unread_posts |-> unread_posts]

\* ------------------------------------------------- db.py: unread_posts
\* str(n) padded with zeros to two characters, as character codes
TwoDigits(n) == <<48 + (n \div 10), 48 + (n % 10)>>

\* datetime.isoformat(): the seconds field, followed by "." and the six
\* digits of the microseconds unless the microseconds are 0 (the date, hour
\* and minute before it are the same for every tick of the model).
isoformat(now) ==
    LET second == now \div TicksPerSecond
        microsecond == (now % TicksPerSecond) * (1000000 \div TicksPerSecond)
    IN  IF microsecond = 0
        THEN TwoDigits(second)
        ELSE TwoDigits(second) \o <<46>> \o TwoDigits(microsecond \div 10000)
                 \o TwoDigits((microsecond \div 100) % 100) \o TwoDigits(microsecond % 100)

\* SQLite's comparison of two TEXT values (BINARY collation): a < b
RECURSIVE text_less(_, _)
text_less(a, b) ==
    IF b = <<>> THEN FALSE
    ELSE IF a = <<>> THEN TRUE
    ELSE IF Head(a) # Head(b) THEN Head(a) < Head(b)
    ELSE text_less(Tail(a), Tail(b))

\* INSERT INTO unread_posts (uid, cat, title, link, published, summary, created_at)
add_unread_post(table, id, uid, cat, title, link, now) ==
    table \cup {[id |-> id, uid |-> uid, cat |-> cat, title |-> title, link |-> link,
                 created_at |-> isoformat(now)]}

\* DELETE FROM unread_posts WHERE uid = ?
clear_unread_posts(table, uid) == {row \in table : row.uid # uid}

\* SELECT COUNT(*) FROM unread_posts WHERE uid = ?
get_unread_count(table, uid) == Cardinality({row \in table : row.uid = uid})

pair_rows(table, uid, cat) == {row \in table : row.uid = uid /\ row.cat = cat}

Min(a, b) == IF a < b THEN a ELSE b

\* The results SELECT id ... ORDER BY created_at ASC LIMIT ? can give
selected_oldest(table, uid, cat, limit) ==
    LET rows == pair_rows(table, uid, cat) IN
    {keep \in SUBSET rows :
        /\ Cardinality(keep) = Min(limit, Cardinality(rows))
        /\ \A k \in keep : \A r \in rows \ keep : ~text_less(r.created_at, k.created_at)}

\* The results SELECT id FROM unread_posts WHERE uid = ? AND cat = ?
\* ORDER BY created_at DESC LIMIT ? can give (rows of equal created_at come
\* in either order).
selected_newest(table, uid, cat, limit) ==
    LET rows == pair_rows(table, uid, cat) IN
    {keep \in SUBSET rows :
        /\ Cardinality(keep) = Min(limit, Cardinality(rows))
        /\ \A k \in keep : \A r \in rows \ keep : ~text_less(k.created_at, r.created_at)}

\* trim_unread_posts whose DELETE leaves out `AND cat = ?`
trim_unread_posts_every_category(table, uid, cat, keep) ==
    {row \in table : ~(row.uid = uid /\ row.id \notin {k.id : k \in keep})}

\* DELETE FROM unread_posts WHERE uid = ? AND cat = ? AND id NOT IN (keep)
trim_unread_posts(table, uid, cat, keep) ==
    {row \in table : ~(row.uid = uid /\ row.cat = cat /\ row.id \notin {k.id : k \in keep})}


\* ------------------------------------------------------------------ state
Init ==
    /\ feeds = <<>>
    /\ users = [u \in {} |-> 0]
    /\ last_seen = [u \in Urls |-> None]
    /\ unread_posts = {}
    /\ next_id = 1
    /\ clock = 0
    /\ upstream = [u \in Urls |-> [entries |-> <<>>, up |-> TRUE]]
    /\ next_seq = 1
    /\ pc = "idle"
    /\ queue = <<>>
    /\ runs_unchanged = 0
    /\ wm_seq = [u \in Urls |-> 0]
    /\ last = NoPoll
    /\ last_trim = NoTrim
    /\ all_feeds = <<>>
    /\ calls = <<>>
    /\ manual = NoManual
    /\ g4f_initialized = FALSE

Range(f) == {f[i] : i \in DOMAIN f}

\* ------------------------------------------------- the upstream feed hosts
\* A host publishes a new entry at the head of its document; the document
\* keeps its MaxFeedLen newest entries.
Publish(url, shape) ==
    /\ next_seq <= MaxSeq
    /\ LET doc == <<MkEntry(next_seq, shape)>> \o upstream[url].entries
       IN  upstream' = [upstream EXCEPT ![url].entries = SubSeq(doc, 1, Min(Len(doc), MaxFeedLen))]
    /\ next_seq' = next_seq + 1
    /\ runs_unchanged' = 0
    /\ last' = NoPoll
    /\ UNCHANGED <<feeds, users, last_seen, unread_posts, next_id, clock, pc, queue,
                   wm_seq, last_trim,
                   all_feeds, calls, manual, g4f_initialized>>

\* A host withdraws its newest entry (the feed is rewound).
Rewind(url) ==
    /\ upstream[url].entries # <<>>
    /\ upstream' = [upstream EXCEPT ![url].entries = Tail(@)]
    /\ runs_unchanged' = 0
    /\ last' = NoPoll
    /\ UNCHANGED <<feeds, users, last_seen, unread_posts, next_id, clock, next_seq, pc,
                   queue, wm_seq, last_trim,
                   all_feeds, calls, manual, g4f_initialized>>

\* A host starts or stops answering with status 200 in time.
SetAvailability(url) ==
    /\ upstream' = [upstream EXCEPT ![url].up = ~@]
    /\ runs_unchanged' = 0
    /\ last' = NoPoll
    /\ UNCHANGED <<feeds, users, last_seen, unread_posts, next_id, clock, next_seq, pc,
                   queue, wm_seq, last_trim,
                   all_feeds, calls, manual, g4f_initialized>>

\* --------------------------------------------------- registry and users
\* db.add_feed(cat, url): INSERT OR IGNORE under UNIQUE(cat, url)
add_feed(cat, url) ==
    /\ <<cat, url>> \notin Range(feeds)
    /\ Len(feeds) < MaxFeeds
    /\ feeds' = Append(feeds, <<cat, url>>)
    /\ runs_unchanged' = 0
    /\ last' = NoPoll
    /\ UNCHANGED <<users, last_seen, unread_posts, next_id, clock, upstream, next_seq, pc,
                   queue, wm_seq, last_trim,
                   all_feeds, calls, manual, g4f_initialized>>

\* user_manager.setup_user(uid, uname, cats): update_user_subscriptions for
\* a uid that has a row, add_user (INSERT OR REPLACE, keywords '[]') otherwise
setup_user(uid, cats) ==
    /\ users' = IF uid \in DOMAIN users
                THEN [users EXCEPT ![uid].cats = cats]
                ELSE [u \in DOMAIN users \cup {uid} |->
                        IF u = uid
                        THEN [uid |-> uid, uname |-> "uname", cats |-> cats, keywords |-> <<>>]
                        ELSE users[u]]
    /\ users' # users
    /\ last' = NoPoll
    /\ UNCHANGED <<feeds, last_seen, unread_posts, next_id, clock, upstream, next_seq, pc,
                   queue, runs_unchanged, wm_seq, last_trim,
                   all_feeds, calls, manual, g4f_initialized>>

\* ---------------------------------------------------------- bot.on_ready
\* on_ready (run at every READY event of the gateway) ends with
\* populate_initial_posts.
PopulateInitialPosts ==
    /\ pc = "idle"
    /\ populate_reached = {}
    /\ unread_posts' = populate_initial_posts.unread_posts
    /\ last' = [op |-> "populate_initial_posts", ret |-> populate_initial_posts.ret,
                enqueued |-> Cardinality(populate_initial_posts.unread_posts \ unread_posts)]
    /\ UNCHANGED <<feeds, users, last_seen, next_id, clock, upstream, next_seq, pc, queue,
                   runs_unchanged, wm_seq, last_trim,
                   all_feeds, calls, manual, g4f_initialized>>

\* ------------------------------------------------------- check_all_feeds
\* check_all_feeds walking one row per feed_url only
CheckAllFeedsStart_one_row_per_url ==
    /\ pc = "idle"
    /\ pc' = "cycle"
    /\ all_feeds' = get_all_feeds
    /\ queue' = SelectSeq(get_all_feeds,
                          LAMBDA row : \A i \in DOMAIN get_all_feeds :
                                          get_all_feeds[i][2] = row[2] => get_all_feeds[i] = row
                                          \/ \E j \in 1..i : get_all_feeds[j] = row)
    /\ calls' = <<>>
    /\ runs_unchanged' = Min(runs_unchanged + 1, 2)
    /\ last' = NoPoll
    /\ UNCHANGED <<feeds, users, last_seen, unread_posts, next_id, clock, upstream,
                   next_seq, wm_seq, last_trim,
                   manual, g4f_initialized>>

\* The scheduler fires the feed_checker job: all_feeds = await db.get_all_feeds()
CheckAllFeedsStart ==
    /\ pc = "idle"
    /\ pc' = "cycle"
    /\ all_feeds' = get_all_feeds
    /\ queue' = get_all_feeds
    /\ calls' = <<>>
    /\ runs_unchanged' = Min(runs_unchanged + 1, 2)
    /\ last' = NoPoll
    /\ UNCHANGED <<feeds, users, last_seen, unread_posts, next_id, clock, upstream,
                   next_seq, wm_seq, last_trim,
                   manual, g4f_initialized>>

\* One pass of a loop that a failed process_feed leaves
CheckAllFeedsStep_stop_on_failure ==
    /\ pc = "cycle"
    /\ queue # <<>>
    /\ LET category == Head(queue)[1]
           feed_url == Head(queue)[2]
           feed == fetch_feed(feed_url)
           r == process_feed(last_seen, category, feed_url, StorageUp)
       IN  /\ last_seen' = r.last_seen
           /\ unread_posts' = r.unread_posts
           /\ wm_seq' = IF r.last_seen # last_seen
                        THEN [wm_seq EXCEPT ![feed_url] = feed.entries[1].seq]
                        ELSE wm_seq
           /\ last' = [op |-> "process_feed", category |-> category, feed_url |-> feed_url,
                       fetched |-> feed.fetched, entries |-> feed.entries,
                       up |-> upstream[feed_url].up, updated |-> r.updated,
                       last_seen_id |-> get_last_seen(last_seen, feed_url),
                       new_entries |-> r.new_entries,
                       stored |-> get_last_seen(r.last_seen, feed_url),
                       enqueued |-> Cardinality(r.unread_posts \ unread_posts),
                       ret |-> r.ret]
           /\ calls' = Append(calls, [category |-> category, feed_url |-> feed_url,
                                      failed |-> ~feed.fetched \/ r.raised])
    /\ queue' = IF ~fetch_feed(Head(queue)[2]).fetched
                    \/ process_feed(last_seen, Head(queue)[1], Head(queue)[2], StorageUp).raised
                 THEN <<>> ELSE Tail(queue)
    /\ UNCHANGED all_feeds
    /\ UNCHANGED <<feeds, users, next_id, clock, upstream, next_seq, pc, runs_unchanged,
                   last_trim,
                   manual, g4f_initialized>>

\* One pass of the loop: process_feed(category, feed_url) and the sleep
CheckAllFeedsStep ==
    /\ pc = "cycle"
    /\ queue # <<>>
    /\ LET category == Head(queue)[1]
           feed_url == Head(queue)[2]
           feed == fetch_feed(feed_url)
           r == process_feed(last_seen, category, feed_url, StorageUp)
       IN  /\ last_seen' = r.last_seen
           /\ unread_posts' = r.unread_posts
           /\ wm_seq' = IF r.last_seen # last_seen
                        THEN [wm_seq EXCEPT ![feed_url] = feed.entries[1].seq]
                        ELSE wm_seq
           /\ last' = [op |-> "process_feed", category |-> category, feed_url |-> feed_url,
                       fetched |-> feed.fetched, entries |-> feed.entries,
                       up |-> upstream[feed_url].up, updated |-> r.updated,
                       last_seen_id |-> get_last_seen(last_seen, feed_url),
                       new_entries |-> r.new_entries,
                       stored |-> get_last_seen(r.last_seen, feed_url),
                       enqueued |-> Cardinality(r.unread_posts \ unread_posts),
                       ret |-> r.ret]
           /\ calls' = Append(calls, [category |-> category, feed_url |-> feed_url,
                                      failed |-> ~feed.fetched \/ r.raised])
    /\ queue' = Tail(queue)
    /\ UNCHANGED all_feeds
    /\ UNCHANGED <<feeds, users, next_id, clock, upstream, next_seq, pc, runs_unchanged,
                   last_trim,
                   manual, g4f_initialized>>

\* The loop is over: the job ends
CheckAllFeedsEnd ==
    /\ pc = "cycle"
    /\ queue = <<>>
    /\ pc' = "idle"
    /\ all_feeds' = <<>>
    /\ calls' = <<>>
    /\ last' = [op |-> "check_all_feeds", all_feeds |-> all_feeds, calls |-> calls]
    /\ UNCHANGED <<feeds, users, last_seen, unread_posts, next_id, clock, upstream,
                   next_seq, queue, runs_unchanged, wm_seq, last_trim,
                   manual, g4f_initialized>>

Next ==
    \/ \E url \in Urls, shape \in Shapes : Publish(url, shape)
    \/ \E url \in Urls : Rewind(url)
    \/ \E url \in Urls : SetAvailability(url)
    \/ \E cat \in Cats, url \in Urls : add_feed(cat, url)
    \/ \E uid \in Uids, cats \in {{"c1"}} : setup_user(uid, cats)
    \/ PopulateInitialPosts
    \/ CheckAllFeedsStart
    \/ CheckAllFeedsStep
    \/ CheckAllFeedsEnd

Spec == Init /\ [][Next]_vars

\* check_all_feeds against the registry and the hosts alone.  The event
\* loop resumes a check_all_feeds that is waiting: fetch_feed gives up after
\* 30 seconds, asyncio.sleep(1) ends, and the job returns.
NextCycle ==
    \/ \E url \in Urls, shape \in {"guid", "untitled"} : Publish(url, shape)
    \/ \E url \in Urls : SetAvailability(url)
    \/ \E cat \in Cats, url \in Urls : add_feed(cat, url)
    \/ CheckAllFeedsStart
    \/ CheckAllFeedsStep
    \/ CheckAllFeedsEnd

SpecCycle ==
    /\ Init /\ [][NextCycle]_vars
    /\ WF_vars(CheckAllFeedsStep) /\ WF_vars(CheckAllFeedsEnd)

\* ------------------------------------------- the registry being edited
\* db.remove_feed(cat, url): DELETE FROM feeds WHERE cat = ? AND url = ?
remove_feed(cat, url) ==
    /\ <<cat, url>> \in Range(feeds)
    /\ feeds' = SelectSeq(feeds, LAMBDA row : row # <<cat, url>>)
    /\ runs_unchanged' = 0
    /\ last' = NoPoll
    /\ UNCHANGED <<users, last_seen, unread_posts, next_id, clock, upstream, next_seq, pc,
                   queue, wm_seq, last_trim, all_feeds, calls, manual, g4f_initialized>>

\* db.delete_category(cat): DELETE FROM feeds WHERE cat = ?, then the
\* category's own row
delete_category(cat) ==
    /\ \E url \in Urls : <<cat, url>> \in Range(feeds)
    /\ feeds' = SelectSeq(feeds, LAMBDA row : row[1] # cat)
    /\ runs_unchanged' = 0
    /\ last' = NoPoll
    /\ UNCHANGED <<users, last_seen, unread_posts, next_id, clock, upstream, next_seq, pc,
                   queue, wm_seq, last_trim, all_feeds, calls, manual, g4f_initialized>>

\* The registry edited by the administrator's commands while the
\* feed_checker job polls it
NextRegistry ==
    \/ \E url \in Urls, shape \in Shapes : Publish(url, shape)
    \/ \E cat \in Cats, url \in Urls : add_feed(cat, url)
    \/ \E cat \in Cats, url \in Urls : remove_feed(cat, url)
    \/ \E cat \in Cats : delete_category(cat)
    \/ CheckAllFeedsStart
    \/ CheckAllFeedsStep
    \/ CheckAllFeedsEnd

SpecRegistry == Init /\ [][NextRegistry]_vars

\* ------------------------------------------------------ /checkfeeds
\* checkfeeds_command awaits manual_feed_check(bot_instance=bot), which
\* awaits check_all_feeds: neither looks at the feed_checker job.  The
\* coroutine runs on the event loop beside the job and gives way at each
\* await; get_new_entries awaits the storage before its loop (line 51) and
\* after it (line 79).
ManualFeedCheckStart ==
    /\ manual.pc = "idle"
    /\ manual' = [pc |-> "cycle", queue |-> get_all_feeds]
    /\ last' = NoPoll
    /\ UNCHANGED <<feeds, users, last_seen, unread_posts, next_id, clock, upstream, next_seq,
                   pc, queue, runs_unchanged, wm_seq, last_trim, all_feeds, calls,
                   g4f_initialized>>

\* process_feed up to the await of line 51: fetch_feed, then get_last_seen
ManualRead ==
    /\ manual.pc = "cycle"
    /\ manual.queue # <<>>
    /\ LET feed_url == Head(manual.queue)[2]
           feed == fetch_feed(feed_url)
       IN  manual' = IF feed.fetched
                     THEN [pc |-> "read", queue |-> manual.queue, entries |-> feed.entries,
                           last_seen_id |-> get_last_seen(last_seen, feed_url)]
                     ELSE [pc |-> "cycle", queue |-> Tail(manual.queue)]
    /\ last' = NoPoll
    /\ UNCHANGED <<feeds, users, last_seen, unread_posts, next_id, clock, upstream, next_seq,
                   pc, queue, runs_unchanged, wm_seq, last_trim, all_feeds, calls,
                   g4f_initialized>>

\* process_feed from line 54 on: the loop over the entries with the
\* watermark that was read, update_last_seen, and the AttributeError of
\* line 106 when there are new entries
ManualWrite ==
    /\ manual.pc = "read"
    /\ LET feed_url == Head(manual.queue)[2]
           new_entries == new_entries_of(manual.last_seen_id, manual.entries)
           wrote == new_entries # <<>> /\ Truthy(latest_id_of(manual.entries))
       IN  /\ last_seen' = IF wrote
                           THEN update_last_seen(last_seen, feed_url, latest_id_of(manual.entries))
                           ELSE last_seen
           /\ wm_seq' = IF wrote THEN [wm_seq EXCEPT ![feed_url] = manual.entries[1].seq]
                        ELSE wm_seq
           /\ last' = [op |-> "manual_process_feed", feed_url |-> feed_url,
                       last_seen_id |-> manual.last_seen_id, new_entries |-> new_entries,
                       found |-> get_last_seen(last_seen, feed_url),
                       job |-> IF last.op = "process_feed" /\ last.feed_url = feed_url
                               THEN [ran |-> TRUE, last_seen_id |-> last.last_seen_id,
                                     new_entries |-> last.new_entries]
                               ELSE [ran |-> FALSE]]
    /\ manual' = [pc |-> "cycle", queue |-> Tail(manual.queue)]
    /\ UNCHANGED <<feeds, users, unread_posts, next_id, clock, upstream, next_seq, pc, queue,
                   runs_unchanged, last_trim, all_feeds, calls, g4f_initialized>>

\* check_all_feeds returns and the command answers "Feed check complete"
ManualFeedCheckEnd ==
    /\ manual.pc = "cycle"
    /\ manual.queue = <<>>
    /\ manual' = NoManual
    /\ last' = NoPoll
    /\ UNCHANGED <<feeds, users, last_seen, unread_posts, next_id, clock, upstream, next_seq,
                   pc, queue, runs_unchanged, wm_seq, last_trim, all_feeds, calls,
                   g4f_initialized>>

NextManual ==
    \/ \E url \in Urls, shape \in Shapes : Publish(url, shape)
    \/ \E url \in Urls : SetAvailability(url)
    \/ \E cat \in Cats, url \in Urls : add_feed(cat, url)
    \/ CheckAllFeedsStart
    \/ CheckAllFeedsStep
    \/ CheckAllFeedsEnd
    \/ ManualFeedCheckStart
    \/ ManualRead
    \/ ManualWrite
    \/ ManualFeedCheckEnd

SpecManual == Init /\ [][NextManual]_vars

\* ------------------------------------------- manual_feed_check alone
\* manual_feed_check(category, feed_url, bot_instance) called with any of
\* its arguments left out, while the storage answers or not and no other
\* poll is running
ManualFeedCheck(category, feed_url, storage) ==
    /\ \E r \in {manual_feed_check(category, feed_url, storage)} :
           /\ last_seen' = r.last_seen
           /\ wm_seq' = [u \in Urls |->
                           IF r.last_seen[u] # last_seen[u]
                           THEN upstream[u].entries[1].seq ELSE wm_seq[u]]
           /\ last' = [op |-> "manual_feed_check", category |-> category,
                       feed_url |-> feed_url, storage |-> storage, registered |-> feeds,
                       result |-> r.result, polled |-> r.polled,
                       propagated |-> r.propagated,
                       before |-> last_seen, after |-> r.last_seen, enqueued |-> 0]
    /\ runs_unchanged' = 0
    /\ UNCHANGED <<feeds, users, unread_posts, next_id, clock, upstream, next_seq, pc, queue,
                   last_trim, all_feeds, calls, manual, g4f_initialized>>

NextCheck ==
    \/ \E url \in Urls, shape \in {"guid", "untitled"} : Publish(url, shape)
    \/ \E url \in Urls : SetAvailability(url)
    \/ \E cat \in Cats, url \in Urls : add_feed(cat, url)
    \/ \E category \in Cats \cup {None}, feed_url \in Urls \cup {None}, storage \in Storages :
          ManualFeedCheck(category, feed_url, storage)

SpecCheck == Init /\ [][NextCheck]_vars

\* ---------------------------------------- the unread_posts operations alone
\* db.add_unread_post(uid, cat, title, link, ...); utcnow() reads a clock
\* that has advanced since the previous insert
AddUnreadPost(uid, cat, n) ==
    /\ next_id <= MaxPosts
    /\ unread_posts' = add_unread_post(unread_posts, next_id, uid, cat, TitleOf[n], LinkOf[n],
                                       clock + 1)
    /\ next_id' = next_id + 1
    /\ clock' = clock + 1
    /\ last_trim' = NoTrim
    /\ UNCHANGED <<feeds, users, last_seen, upstream, next_seq, pc, queue, runs_unchanged,
                   wm_seq, last,
                   all_feeds, calls, manual, g4f_initialized>>

\* db.trim_unread_posts(uid, cat, limit)
TrimUnreadPosts(uid, cat, limit) ==
    /\ \E keep \in selected_newest(unread_posts, uid, cat, limit) :
          unread_posts' = trim_unread_posts(unread_posts, uid, cat, keep)
    /\ last_trim' = [uid |-> uid, cat |-> cat, limit |-> limit,
                     before |-> pair_rows(unread_posts, uid, cat),
                     others |-> unread_posts \ pair_rows(unread_posts, uid, cat)]
    /\ UNCHANGED <<feeds, users, last_seen, next_id, clock, upstream, next_seq, pc, queue,
                   runs_unchanged, wm_seq, last,
                   all_feeds, calls, manual, g4f_initialized>>

\* db.clear_unread_posts(uid)
ClearUnreadPosts(uid) ==
    /\ get_unread_count(unread_posts, uid) > 0
    /\ unread_posts' = clear_unread_posts(unread_posts, uid)
    /\ last_trim' = NoTrim
    /\ UNCHANGED <<feeds, users, last_seen, next_id, clock, upstream, next_seq, pc, queue,
                   runs_unchanged, wm_seq, last,
                   all_feeds, calls, manual, g4f_initialized>>

MailUids == {1, 2}

NextMailbox ==
    \/ \E uid \in MailUids, cat \in Cats : AddUnreadPost(uid, cat, 1)
    \/ \E uid \in MailUids, cat \in Cats, limit \in 0..MaxLimit : TrimUnreadPosts(uid, cat, limit)
    \/ \E uid \in MailUids : ClearUnreadPosts(uid)

SpecMailbox == Init /\ [][NextMailbox]_vars


\* --------------------------------------------------------- ai_summary.py
SummaryLimit == 50

NotInitializedText == "Error: G4F not initialized. Please restart the bot."
NoPostsText == "You have no unread posts!"
NothingToSummarizeText == "No new posts to summarize."
ErrorText == "Error generating sum"
SummaryText == "summary"

\* db.get_unread_posts(uid, limit): the dicts built from the rows of
\* SELECT * ... WHERE uid = ? ORDER BY created_at DESC LIMIT ?
get_unread_posts(table, uid, limit) ==
    LET rows == {row \in table : row.uid = uid}
        shown == IF Cardinality(rows) <= limit THEN rows
                 ELSE CHOOSE keep \in SUBSET rows :
                         /\ Cardinality(keep) = limit
                         /\ \A k \in keep : \A r \in rows \ keep :
                               ~text_less(k.created_at, r.created_at)
    IN  {[id |-> row.id, cat |-> row.cat, title |-> row.title, link |-> row.link,
          created_at |-> row.created_at] : row \in shown}

\* generate_sum(posts): the text it returns.  Line 53 reads
\* post["category_name"]; the KeyError of a dict without that key is caught
\* at line 104, before the backend is called.
generate_sum(posts, provider_up) ==
    IF ~g4f_initialized THEN NotInitializedText
    ELSE IF posts = {} THEN NothingToSummarizeText
    ELSE IF \E post \in posts : "category_name" \notin DOMAIN post THEN ErrorText
    ELSE IF provider_up THEN SummaryText
    ELSE ErrorText

\* generate_user_sum(uid): line 129 reads post["category_name"] and line
\* 137 user["username"]; a KeyError is caught at line 140.
generate_user_sum(table, uid, provider_up) ==
    LET posts == get_unread_posts(table, uid, SummaryLimit)
        user == get_user(uid, TRUE)
    IN  IF posts = {} THEN [success |-> FALSE, msg |-> NoPostsText]
        ELSE IF \/ \E post \in posts : "category_name" \notin DOMAIN post
                \/ user # NoUser /\ "username" \notin DOMAIN user
             THEN [success |-> FALSE, msg |-> ErrorText]
             ELSE [success |-> TRUE, sum |-> generate_sum(posts, provider_up)]

\* the parameters of utils.create_summary_embed and the keywords that
\* send_sum_to_user passes to it
create_summary_embed_parameters == {"summary", "total_posts", "categories"}
create_summary_embed_keywords == {"sum", "total_posts", "categories"}

\* send_sum_to_user that clears the mailbox after any message it sent
send_sum_to_user_clear_after_any_send(table, uid, provider_up, dm_ok) ==
    LET result == generate_user_sum(table, uid, provider_up) IN
    IF ~result.success
    THEN [ret |-> FALSE, delivered |-> IF dm_ok THEN result.msg ELSE None,
          unread_posts |-> IF dm_ok THEN clear_unread_posts(table, uid)
                           ELSE table]
    ELSE IF ~(create_summary_embed_keywords \subseteq create_summary_embed_parameters)
         THEN [ret |-> FALSE, delivered |-> None, unread_posts |-> table]
         ELSE IF dm_ok
              THEN [ret |-> TRUE, delivered |-> result.sum,
                    unread_posts |-> clear_unread_posts(table, uid)]
              ELSE [ret |-> FALSE, delivered |-> None, unread_posts |-> table]

\* send_sum_to_user(bot, uid, clear_after=True) run on an unread_posts
\* table: its return value, the text the subscriber receives (None: no
\* message) and the table it leaves.
\* dm_ok: bot.fetch_user and user.send succeed.
send_sum_to_user(table, uid, provider_up, dm_ok) ==
    LET result == generate_user_sum(table, uid, provider_up) IN
    IF ~result.success
    THEN [ret |-> FALSE, delivered |-> IF dm_ok THEN result.msg ELSE None,
          unread_posts |-> table]
    ELSE IF ~(create_summary_embed_keywords \subseteq create_summary_embed_parameters)
         THEN [ret |-> FALSE, delivered |-> None, unread_posts |-> table]
         ELSE IF dm_ok
              THEN [ret |-> TRUE, delivered |-> result.sum,
                    unread_posts |-> clear_unread_posts(table, uid)]
              ELSE [ret |-> FALSE, delivered |-> None, unread_posts |-> table]

\* ------------------------------------------------- the summary request alone
\* initialize_g4f(prov_name), run by on_ready
InitializeG4f(ok) ==
    /\ g4f_initialized' = ok
    /\ last' = NoPoll
    /\ UNCHANGED <<feeds, users, last_seen, unread_posts, next_id, clock, upstream, next_seq,
                   pc, queue, runs_unchanged, wm_seq, last_trim, all_feeds, calls, manual>>

\* /summary: send_sum_to_user(bot, uid, clear_after=True), with the backend
\* and the subscriber's direct messages reachable or not
SendSumToUser(uid, provider_up, dm_ok) ==
    /\ \E r \in {send_sum_to_user(unread_posts, uid, provider_up, dm_ok)} :
           /\ unread_posts' = r.unread_posts
           /\ last' = [op |-> "send_sum_to_user", uid |-> uid,
                       g4f_initialized |-> g4f_initialized, provider_up |-> provider_up,
                       dm_ok |-> dm_ok,
                       before |-> {row \in unread_posts : row.uid = uid},
                       after |-> {row \in r.unread_posts : row.uid = uid},
                       delivered |-> r.delivered, ret |-> r.ret]
    /\ UNCHANGED <<feeds, users, last_seen, next_id, clock, upstream, next_seq, pc, queue,
                   runs_unchanged, wm_seq, last_trim, all_feeds, calls, manual,
                   g4f_initialized>>

NextSummary ==
    \/ \E cat \in Cats : AddUnreadPost(1, cat, 1)
    \/ \E ok \in BOOLEAN : InitializeG4f(ok)
    \/ \E uid \in Uids, provider_up \in BOOLEAN, dm_ok \in BOOLEAN :
          SendSumToUser(uid, provider_up, dm_ok)

SpecSummary == Init /\ [][NextSummary]_vars

\* ------------------------------------------------ the daily summary sweep
\* The rows of a SELECT on users as a list, in the order of their uid
in_uid_order(rows) ==
    CHOOSE list \in [1..Cardinality(rows) -> rows] :
        \A i, j \in 1..Cardinality(rows) : i < j => list[i]["uid"] < list[j]["uid"]

\* user_manager.get_all_active_users():
\* [user for user in all_users if len(user["subscribed_cats"]) > 0]; the
\* enclosing try/except turns the KeyError of a dict that lacks the key
\* into the empty list.
get_all_active_users ==
    LET all_users == get_all_users IN
    IF \E user \in all_users : "subscribed_cats" \notin DOMAIN user
    THEN <<>>
    ELSE in_uid_order({user \in all_users : user["subscribed_cats"] # {}})

\* The loop of send_daily_summaries (lines 198-209) over the list users,
\* run on an unread_posts table: attempts lists the calls of
\* send_sum_to_user it has made.
RECURSIVE sweep_each(_, _, _, _, _)
sweep_each(active, table, provider_up, dm_ok, attempts) ==
    IF active = <<>>
    THEN [unread_posts |-> table, attempts |-> attempts]
    ELSE LET uid == Head(active)["uid"]
             swept_with(r) ==
                 sweep_each(Tail(active), r.unread_posts, provider_up, dm_ok,
                            Append(attempts, [uid |-> uid, ret |-> r.ret,
                                              delivered |-> r.delivered]))
         IN  IF get_unread_count(table, uid) = 0
             THEN sweep_each(Tail(active), table, provider_up, dm_ok, attempts)
             ELSE swept_with(send_sum_to_user(table, uid, provider_up, dm_ok))

\* send_daily_summaries(bot): the table it leaves and the calls of
\* send_sum_to_user it made
send_daily_summaries(provider_up, dm_ok) ==
    sweep_each(get_all_active_users, unread_posts, provider_up, dm_ok, <<>>)

\* The daily_summary job firing, with the backend and the subscribers'
\* direct messages reachable or not
SendDailySummaries(provider_up, dm_ok) ==
    /\ \E r \in {send_daily_summaries(provider_up, dm_ok)} :
           /\ unread_posts' = r.unread_posts
           /\ last' = [op |-> "send_daily_summaries", users |-> users,
                       g4f_initialized |-> g4f_initialized, provider_up |-> provider_up,
                       dm_ok |-> dm_ok, before |-> unread_posts,
                       after |-> r.unread_posts, attempts |-> r.attempts]
    /\ UNCHANGED <<feeds, users, last_seen, next_id, clock, upstream, next_seq, pc, queue,
                   runs_unchanged, wm_seq, last_trim, all_feeds, calls, manual,
                   g4f_initialized>>

NextSweep ==
    \/ \E uid \in MailUids, cats \in {{}, {"c1"}} : setup_user(uid, cats)
    \/ \E uid \in MailUids : AddUnreadPost(uid, "c1", 1)
    \/ InitializeG4f(TRUE)
    \/ \E provider_up \in BOOLEAN, dm_ok \in BOOLEAN : SendDailySummaries(provider_up, dm_ok)

SpecSweep == Init /\ [][NextSweep]_vars

\* ------------------------------------------------------------ the previews
\* send_latest_feed_preview that records the entry it showed as seen
send_latest_feed_preview_marking_seen(table, category, feed_url, dm_ok) ==
    LET feed == fetch_feed(feed_url) IN
    IF ~feed.fetched \/ feed.entries = <<>>
    THEN [ret |-> FALSE, last_seen |-> table]
    ELSE [ret |-> dm_ok,
          last_seen |-> update_last_seen(table, feed_url, get_entry_id(feed.entries[1]))]

\* send_latest_feed_preview(bot, user_id, category, feed_url) run on a
\* last_seen table: False when the fetch fails or gives no entry, else
\* whether the embed of entries[0] reached the subscriber (dm_ok:
\* bot.fetch_user and discord_user.send succeed).  It calls no db function.
send_latest_feed_preview(table, category, feed_url, dm_ok) ==
    LET feed == fetch_feed(feed_url) IN
    IF ~feed.fetched \/ feed.entries = <<>>
    THEN [ret |-> FALSE, last_seen |-> table]
    ELSE [ret |-> dm_ok, last_seen |-> table]

\* The rows <<category, feed_url>> the two loops of send_category_previews
\* (lines 372-375) visit, in order
RECURSIVE preview_rows(_, _)
preview_rows(categories, storage) ==
    IF categories = <<>> THEN <<>>
    ELSE LET feed_urls == get_feeds_by_category(Head(categories), storage)
         IN  [i \in DOMAIN feed_urls |-> <<Head(categories), feed_urls[i]>>]
                 \o preview_rows(Tail(categories), storage)

\* The body of the loops (lines 376-381) over those rows: dm[i] tells
\* whether the subscriber can be reached at the i-th preview.
RECURSIVE preview_each(_, _, _, _, _)
preview_each(rows, table, dm, sent_count, previews) ==
    IF rows = <<>>
    THEN [ret |-> sent_count, last_seen |-> table, previews |-> previews]
    ELSE LET previewed_with(success) ==
                 preview_each(Tail(rows), success.last_seen, dm,
                              IF success.ret THEN sent_count + 1 ELSE sent_count,
                              Append(previews, [category |-> Head(rows)[1],
                                                feed_url |-> Head(rows)[2],
                                                success |-> success.ret]))
         IN  previewed_with(send_latest_feed_preview(table, Head(rows)[1], Head(rows)[2],
                                                     dm[Len(previews) + 1]))

\* send_category_previews(bot, user_id, categories): sent_count, the
\* last_seen table it leaves and the previews it tried
send_category_previews(categories, dm, storage) ==
    preview_each(preview_rows(categories, storage), last_seen, dm, 0, <<>>)

\* The lists of categories a subscriber can select
Selections == {<<>>} \cup {<<cat>> : cat \in Cats}
                  \cup {<<a, b>> : <<a, b>> \in {pair \in Cats \X Cats : pair[1] # pair[2]}}

\* The send_previews task of the category select callback
SendCategoryPreviews(categories, dm, storage) ==
    /\ \E r \in {send_category_previews(categories, dm, storage)} :
           /\ last_seen' = r.last_seen
           /\ last' = [op |-> "send_category_previews", categories |-> categories,
                       dm |-> dm, storage |-> storage, registered |-> feeds,
                       before |-> last_seen, after |-> r.last_seen,
                       mailbox_before |-> unread_posts, ret |-> r.ret,
                       previews |-> r.previews]
    /\ UNCHANGED <<feeds, users, unread_posts, next_id, clock, upstream, next_seq, pc, queue,
                   runs_unchanged, wm_seq, last_trim, all_feeds, calls, manual,
                   g4f_initialized>>

NextPreview ==
    \/ \E url \in Urls, shape \in {"guid", "untitled"} : Publish(url, shape)
    \/ \E url \in Urls : SetAvailability(url)
    \/ \E cat \in Cats, url \in Urls : add_feed(cat, url)
    \/ CheckAllFeedsStart
    \/ CheckAllFeedsStep
    \/ CheckAllFeedsEnd
    \/ \E categories \in Selections, storage \in {st \in Storages : st.write_ok} :
          \E dm \in [1..Len(preview_rows(categories, storage)) -> BOOLEAN] :
              SendCategoryPreviews(categories, dm, storage)

SpecPreview == Init /\ [][NextPreview]_vars

\* ------------------------------------------------ the keyword filter alone
\* add_user_keyword storing the keyword as it was typed
add_user_keyword_as_typed(uid, keyword) ==
    /\ uid \in DOMAIN users
    /\ Len(users[uid].keywords) < MaxKeywords
    /\ users' = IF \E i \in DOMAIN users[uid].keywords :
                      lower(users[uid].keywords[i]) = lower(keyword)
                THEN users
                ELSE [users EXCEPT ![uid].keywords = Append(@, keyword)]
    /\ last' = [op |-> "add_user_keyword", uid |-> uid, keyword |-> keyword,
                before |-> users[uid].keywords]
    /\ UNCHANGED <<feeds, last_seen, unread_posts, next_id, clock, upstream, next_seq, pc,
                   queue, runs_unchanged, wm_seq, last_trim,
                   all_feeds, calls, manual, g4f_initialized>>

\* db.add_user_keyword(uid, keyword) for a subscriber who has a row: appends
\* keyword.lower() unless a stored keyword already equals it
\* case-insensitively, and rewrites the row
add_user_keyword(uid, keyword) ==
    /\ uid \in DOMAIN users
    /\ Len(users[uid].keywords) < MaxKeywords
    /\ users' = IF \E i \in DOMAIN users[uid].keywords :
                      lower(users[uid].keywords[i]) = lower(keyword)
                THEN users
                ELSE [users EXCEPT ![uid].keywords = Append(@, lower(keyword))]
    /\ last' = [op |-> "add_user_keyword", uid |-> uid, keyword |-> keyword,
                before |-> users[uid].keywords]
    /\ UNCHANGED <<feeds, last_seen, unread_posts, next_id, clock, upstream, next_seq, pc,
                   queue, runs_unchanged, wm_seq, last_trim,
                   all_feeds, calls, manual, g4f_initialized>>

\* user_manager.should_show_post(uid, title, summary), with the storage up
\* or down while it reads the subscriber's row
ShouldShowPost(uid, title, summary, storage_ok) ==
    /\ last' = [op |-> "should_show_post", uid |-> uid, title |-> title, summary |-> summary,
                keywords |-> IF uid \in DOMAIN users THEN users[uid].keywords ELSE <<>>,
                storage_ok |-> storage_ok,
                ret |-> should_show_post(uid, title, summary, storage_ok)]
    /\ UNCHANGED <<feeds, users, last_seen, unread_posts, next_id, clock, upstream, next_seq,
                   pc, queue, runs_unchanged, wm_seq, last_trim,
                   all_feeds, calls, manual, g4f_initialized>>

NextFilter ==
    \/ \E uid \in Uids, cats \in {{"c1"}} : setup_user(uid, cats)
    \/ \E uid \in Uids, keyword \in Keywords : add_user_keyword(uid, keyword)
    \/ \E uid \in Uids, title \in Texts, summary \in Summaries, storage_ok \in BOOLEAN :
          ShouldShowPost(uid, title, summary, storage_ok)

SpecFilter == Init /\ [][NextFilter]_vars


\* ------------------------------------------------------------ properties
\* Every run of populate_initial_posts stops before line 459 (the guard of
\* PopulateInitialPosts excludes no run).
populate_skips_every_category == populate_reached = {}

\* The state right after a process_feed that fetched at least one entry
Polled == last.op = "process_feed" /\ last.fetched /\ last.entries # <<>>

\* The positions of the fetched entries whose id is the watermark read
matches == {i \in 1..Len(last.entries) : get_entry_id(last.entries[i]) = last.last_seen_id}

\* C1: a poll of a source that has no stored watermark and fetched at least
\* one entry marks exactly one entry new, the newest (entries[0]).
C1_seed_marks_only_newest ==
    (Polled /\ last.last_seen_id = None) => last.new_entries = <<last.entries[1]>>

C1_witness ==
    /\ Polled /\ last.last_seen_id = None
    /\ Len(last.entries) >= 2
    /\ last.new_entries = <<last.entries[1]>>

\* C2: a poll of a source whose stored watermark is the id of no fetched
\* entry marks every fetched entry new, and nothing else.
C2_absent_watermark_marks_all ==
    (Polled /\ last.last_seen_id # None /\ matches = {}) => last.new_entries = last.entries

C2_witness ==
    /\ Polled /\ last.last_seen_id # None /\ matches = {}
    /\ Len(last.entries) >= 2
    /\ last.new_entries = last.entries

\* C3: a poll of a source whose stored watermark is the id of the fetched
\* entry at position i (newest first, first match) marks new exactly the
\* entries before position i.
C3_new_is_prefix_before_match ==
    (Polled /\ last.last_seen_id # None /\ matches # {}) =>
        LET i == CHOOSE m \in matches : \A k \in matches : m <= k
        IN  last.new_entries = SubSeq(last.entries, 1, i - 1)

C3_witness ==
    /\ Polled /\ last.last_seen_id # None /\ matches # {}
    /\ Len(last.new_entries) >= 1
    /\ Len(last.new_entries) + 1 < Len(last.entries)

\* C4 (as claimed): the second of two poll cycles with no upstream change
\* between them marks no entry new and grows no mailbox.
C4_second_run_finds_nothing ==
    (runs_unchanged = 2 /\ last.op = "process_feed") =>
        (last.new_entries = <<>> /\ last.enqueued = 0)

\* C5 (as claimed): polled with entries [E1..En] and a stored watermark
\* equal to En.id, the new set is empty and the watermark is unchanged.
C5_watermark_is_last_entry ==
    (Polled /\ last.last_seen_id # None
        /\ get_entry_id(last.entries[Len(last.entries)]) = last.last_seen_id) =>
        (last.new_entries = <<>> /\ last.stored = last.last_seen_id)

\* C5 (amended): polled with entries [E1..En] and a stored watermark equal
\* to E1.id, the id of the newest entry, the new set is empty and the
\* watermark is unchanged.
C5_watermark_is_newest_entry ==
    (Polled /\ last.last_seen_id # None
        /\ get_entry_id(last.entries[1]) = last.last_seen_id) =>
        (last.new_entries = <<>> /\ last.stored = last.last_seen_id)

C5_witness ==
    /\ Polled /\ last.last_seen_id # None
    /\ get_entry_id(last.entries[1]) = last.last_seen_id
    /\ Len(last.entries) >= 2
    /\ last.new_entries = <<>>

\* C6 (as claimed): once a source's watermark is the id of an entry X, no
\* later poll sets it to the id of an entry older than X in the feed's own
\* order.
C6_watermark_never_regresses ==
    [][\A url \in Urls : wm_seq[url] # 0 => wm_seq'[url] >= wm_seq[url]]_vars

\* C10: after trim_unread_posts(uid, cat, K) the pair holds min(n, K) of
\* the n posts it held, and every post it kept was created after every
\* post it lost.
C10_trim_keeps_most_recent ==
    last_trim # NoTrim =>
        LET before == last_trim.before
            now == pair_rows(unread_posts, last_trim.uid, last_trim.cat)
        IN  /\ Cardinality(now) = Min(Cardinality(before), last_trim.limit)
            /\ now \subseteq before
            /\ \A kept \in now : \A lost \in before \ now : lost.id < kept.id

C10_witness ==
    /\ last_trim # NoTrim
    /\ last_trim.limit >= 1
    /\ Cardinality(last_trim.before) > last_trim.limit
    /\ \E row \in unread_posts :
          /\ row.uid = last_trim.uid /\ row.cat = last_trim.cat
          /\ \A other \in last_trim.before : other.id <= row.id


\* The state right after a should_show_post that read the subscriber's row
Filtered == last.op = "should_show_post" /\ last.storage_ok

\* keyword occurs in text at offset i, compared character by character
\* without regard to case
occurs_at(text, keyword, i) ==
    /\ i + Len(keyword) <= Len(text)
    /\ \A j \in 1..Len(keyword) : lower(<<keyword[j]>>) = lower(<<text[i + j]>>)

occurs_in(text, keyword) == \E i \in 0..Len(text) : occurs_at(text, keyword, i)

\* C11 (as claimed): with no keyword every post passes; otherwise a post
\* passes iff some keyword occurs, case-insensitively, in the concatenation
\* of its title and its summary.
C11_filter_on_concatenation ==
    Filtered =>
        (last.ret <=> (last.keywords = <<>>
                       \/ \E i \in DOMAIN last.keywords :
                             occurs_in(last.title \o last.summary, last.keywords[i])))

\* C11 (amended): with no keyword every post passes; otherwise a post
\* passes iff some keyword occurs, case-insensitively, in the title, one
\* space and the summary put together.
C11_filter_on_title_space_summary ==
    Filtered =>
        (last.ret <=> (last.keywords = <<>>
                       \/ \E i \in DOMAIN last.keywords :
                             occurs_in(last.title \o <<" ">> \o last.summary, last.keywords[i])))

C11_witness ==
    /\ Filtered
    /\ Len(last.keywords) = 2
    /\ last.ret
    /\ ~occurs_in(last.title \o <<" ">> \o last.summary, last.keywords[1])
    /\ ~contains(last.title \o <<" ">> \o last.summary, last.keywords[2])

\* C12: when reading the subscriber's keywords fails, should_show_post
\* returns true.
C12_lookup_failure_shows_post ==
    (last.op = "should_show_post" /\ ~last.storage_ok) => last.ret

C12_witness ==
    /\ last.op = "should_show_post" /\ ~last.storage_ok
    /\ last.keywords # <<>>
    /\ \A i \in DOMAIN last.keywords :
          ~occurs_in(last.title \o <<" ">> \o last.summary, last.keywords[i])
    /\ last.ret


\* The state right after a check_all_feeds returned
CycleEnded == last.op = "check_all_feeds"

rows_of(cs) == [i \in DOMAIN cs |-> <<cs[i].category, cs[i].feed_url>>]

\* C15: a source whose processing failed does not stop the cycle: while the
\* cycle runs every source listed after it is processed or still to come,
\* and when the cycle has ended every source listed after it was processed.
C15_failure_does_not_stop_cycle ==
    /\ (pc = "cycle" /\ \E i \in DOMAIN calls : calls[i].failed)
          => rows_of(calls) \o queue = all_feeds
    /\ CycleEnded =>
          \A i \in DOMAIN last.calls :
              last.calls[i].failed =>
                  \A j \in (i + 1)..Len(last.all_feeds) :
                      j \in DOMAIN last.calls /\ rows_of(last.calls)[j] = last.all_feeds[j]

C15_witness ==
    /\ CycleEnded
    /\ Len(last.calls) = 2
    /\ last.calls[1].failed
    /\ rows_of(last.calls)[2] = last.all_feeds[2]

\* C16: every check_all_feeds that starts ends, and when it has ended it
\* has called process_feed exactly once for every (category, source) pair
\* of the registry it read, and for no other pair.
C16_cycle_ends_after_one_call_per_row ==
    /\ (pc = "cycle") ~> (pc = "idle")
    /\ [](CycleEnded =>
            /\ \A row \in Range(last.all_feeds) :
                  Cardinality({i \in DOMAIN last.calls : rows_of(last.calls)[i] = row}) = 1
            /\ Range(rows_of(last.calls)) \subseteq Range(last.all_feeds))

C16_witness ==
    /\ CycleEnded
    /\ Len(last.all_feeds) = 2
    /\ \A row \in Range(last.all_feeds) :
          Cardinality({i \in DOMAIN last.calls : rows_of(last.calls)[i] = row}) = 1


\* C17: at most one poll cycle is in progress at any time, whether the
\* feed_checker job or the checkfeeds command started it.
C17_one_cycle_at_a_time == ~(pc = "cycle" /\ manual.pc # "idle")

\* C18: two passes over one source never both read the same watermark,
\* which the first of them then replaces, and both mark the same entry new.
C18_watermark_read_write_atomic ==
    (last.op = "manual_process_feed" /\ last.job.ran)
        => ~ /\ last.job.last_seen_id = last.last_seen_id
             /\ last.found # last.last_seen_id
             /\ Range(last.job.new_entries) \cap Range(last.new_entries) # {}


\* C20: when the summarization backend is not initialised or its call
\* would fail, send_sum_to_user leaves the subscriber's unread posts as they
\* were, and the message the subscriber receives is an error text.
C20_backend_down_keeps_posts ==
    (last.op = "send_sum_to_user" /\ (~last.g4f_initialized \/ ~last.provider_up))
        => /\ last.after = last.before
           /\ ~last.ret
           /\ last.dm_ok => last.delivered \in {ErrorText, NotInitializedText, NoPostsText}

C20_witness ==
    /\ last.op = "send_sum_to_user"
    /\ ~last.g4f_initialized
    /\ last.dm_ok
    /\ Cardinality(last.before) >= 2
    /\ last.after = last.before
    /\ last.delivered = ErrorText


\* C21: every registered feed source URL belongs to exactly one category:
\* no URL has rows of the feeds table under two categories.
C21_url_in_one_category ==
    \A i, j \in DOMAIN feeds : feeds[i][2] = feeds[j][2] => feeds[i][1] = feeds[j][1]


\* C26: after a poll that found at least one new entry, the stored
\* watermark of the source is the id of the newest fetched entry, whatever
\* id get_entry_id derived for it.
C26_watermark_is_newest_id ==
    (Polled /\ last.new_entries # <<>>) => last.stored = get_entry_id(last.entries[1])

\* C27: a poll that found no new entry did not write the watermark row of
\* the source: update_last_seen was not called and the stored id is the
\* one the poll read.
C27_no_new_entry_no_write ==
    (last.op = "process_feed" /\ last.new_entries = <<>>)
        => ~last.updated /\ last.stored = last.last_seen_id

C27_witness ==
    /\ Polled
    /\ last.new_entries = <<>>
    /\ Len(last.entries) >= 2
    /\ last.stored = get_entry_id(last.entries[1])
    /\ ~last.updated

\* C28: when the host does not answer with the document, or the document
\* has no entries, process_feed returns 0, the watermark of the source is
\* as it was and no row is added to unread_posts.
C28_no_fetch_no_change ==
    (last.op = "process_feed" /\ (~last.up \/ last.entries = <<>>))
        => /\ last.ret = 0
           /\ ~last.updated /\ last.stored = last.last_seen_id
           /\ last.enqueued = 0

C28_witness ==
    /\ last.op = "process_feed"
    /\ ~last.up
    /\ upstream[last.feed_url].entries # <<>>
    /\ last.last_seen_id # get_entry_id(upstream[last.feed_url].entries[1])
    /\ last.ret = 0
    /\ last.stored = last.last_seen_id


\* The state right after a manual_feed_check returned
Checked == last.op = "manual_feed_check"

\* C22: manual_feed_check, the check_all_feeds it runs and every
\* process_feed they call return normally, whether the hosts answer or
\* not, whether the storage reads and writes or not, and whether
\* processing a source raises or not: none of them raises into its caller,
\* and manual_feed_check returns a success or an error dict.
C22_no_fault_reaches_caller ==
    Checked =>
        /\ ~last.propagated
        /\ \A i \in DOMAIN last.polled : ~last.polled[i].propagated
        /\ "success" \in DOMAIN last.result \/ "error" \in DOMAIN last.result

C22_witness ==
    /\ Checked
    /\ ~last.storage.write_ok
    /\ Len(last.polled) = 2
    /\ last.polled[1].raised
    /\ ~last.propagated
    /\ "success" \in DOMAIN last.result

RECURSIVE total_marked(_)
total_marked(polled) ==
    IF polled = <<>> THEN 0 ELSE Head(polled).marked + total_marked(Tail(polled))

\* C23: every process_feed returns the number of entries the novelty
\* filter marked new, and manual_feed_check for a source or for a category
\* reports success with new_entries the sum of those numbers over the
\* sources it polled, each of them polled once.
C23_counts_new_entries ==
    (/\ Checked /\ last.storage = StorageUp
     /\ (last.feed_url # None \/ last.category # None) /\ last.polled # <<>>)
        => /\ \A i \in DOMAIN last.polled : last.polled[i].ret = last.polled[i].marked
           /\ "success" \in DOMAIN last.result
           /\ last.result.new_entries = total_marked(last.polled)
           /\ \A i, j \in DOMAIN last.polled :
                 last.polled[i].feed_url = last.polled[j].feed_url => i = j

\* C24: manual_feed_check called with a feed URL that no row of the
\* registry holds, and no category, returns the error "Feed URL not found"
\* and polls nothing: the watermarks and the mailboxes are as they were.
C24_unknown_url_polls_nothing ==
    (/\ Checked
     /\ last.feed_url # None /\ last.category = None
     /\ \A i \in DOMAIN last.registered : last.registered[i][2] # last.feed_url)
        => /\ last.result = NotFound
           /\ last.polled = <<>>
           /\ last.after = last.before
           /\ last.enqueued = 0

C24_witness ==
    /\ Checked
    /\ last.feed_url # None /\ last.category = None
    /\ last.registered = <<>>
    /\ last.storage = StorageUp
    /\ upstream[last.feed_url].up /\ upstream[last.feed_url].entries # <<>>
    /\ last.before[last.feed_url] = None
    /\ last.result = NotFound
    /\ last.after = last.before


\* C25: the keywords stored for a subscriber are a set of lowercase
\* strings: each is its own lowercase form and no two of them are equal
\* when compared without regard to case.
C25_keywords_lowercase_set ==
    \A uid \in DOMAIN users :
        LET keywords == users[uid].keywords IN
        /\ \A i \in DOMAIN keywords : keywords[i] = lower(keywords[i])
        /\ \A i, j \in DOMAIN keywords : lower(keywords[i]) = lower(keywords[j]) => i = j

\* An add_user_keyword of a keyword typed with a capital that a stored
\* keyword already equals in lowercase, and before it one that stored its
\* keyword in lowercase
C25_witness ==
    /\ last.op = "add_user_keyword"
    /\ last.keyword # lower(last.keyword)
    /\ Len(last.before) = 1
    /\ last.before[1] = lower(last.keyword)
    /\ users[last.uid].keywords = last.before

\* C33: the id a poll derives for a fetched entry is the entry's id when
\* the document gives one, else its link, else its title, else "unknown",
\* and it is a string of at least one character.
C33_entry_id_non_empty ==
    Polled =>
        \A i \in DOMAIN last.entries :
            LET entry == last.entries[i] IN
            /\ get_entry_id(entry) = IF entry.id # None THEN entry.id
                                     ELSE IF entry.link # None THEN entry.link
                                     ELSE IF entry.title # None THEN entry.title
                                     ELSE "unknown"
            /\ get_entry_id(entry) # None
            /\ get_entry_id(entry) # ""


\* C37: trim_unread_posts(uid, cat, limit) deletes rows of the pair
\* (uid, cat) only: the rows of every other subscriber, and of the same
\* subscriber in every other category, are the rows held before the call.
C37_trim_touches_one_pair ==
    last_trim # NoTrim =>
        /\ unread_posts \ pair_rows(unread_posts, last_trim.uid, last_trim.cat) = last_trim.others
        /\ pair_rows(unread_posts, last_trim.uid, last_trim.cat) \subseteq last_trim.before

\* A trim that deleted a row of its pair while the same subscriber held a
\* row in another category and another subscriber held a row in the same one
C37_witness ==
    /\ last_trim # NoTrim
    /\ pair_rows(unread_posts, last_trim.uid, last_trim.cat) # last_trim.before
    /\ \E row \in unread_posts : row.uid = last_trim.uid /\ row.cat # last_trim.cat
    /\ \E row \in unread_posts : row.uid # last_trim.uid /\ row.cat = last_trim.cat


\* C34: a poll whose read of the watermark fails in storage goes on as if
\* the source had never been polled: of the entries it fetched it marks
\* the newest one new, and no other, and it stores that entry's id as the
\* watermark.
C34_failed_read_polls_as_first_time ==
    (Checked /\ ~last.storage.read_ok /\ last.storage.write_ok) =>
        \A i \in DOMAIN last.polled :
            LET feed_url == last.polled[i].feed_url
                entries == upstream[feed_url].entries
            IN  (upstream[feed_url].up /\ entries # <<>>) =>
                    /\ last.polled[i].new_entries = <<entries[1]>>
                    /\ last.after[feed_url] = get_entry_id(entries[1])


\* C35: when a poll has moved the watermark of a source over the entries
\* it marked new, each of those entries is in the mailbox of every
\* subscriber of the polled category whom the keyword filter lets
\* through (here: every subscriber who stores no keyword).
C35_no_entry_lost ==
    (Polled /\ last.stored # last.last_seen_id) =>
        \A i \in DOMAIN last.new_entries :
            \A uid \in DOMAIN users :
                (last.category \in users[uid].cats /\ users[uid].keywords = <<>>) =>
                    \E row \in unread_posts :
                        /\ row.uid = uid /\ row.cat = last.category
                        /\ row.link = last.new_entries[i].link


\* The state right after a send_daily_summaries returned
Swept == last.op = "send_daily_summaries"

\* C32: the daily-summary sweep calls send_sum_to_user for no subscriber
\* whose mailbox was empty and leaves that mailbox as it was, and it calls
\* send_sum_to_user exactly once for every subscriber who has at least one
\* category and at least one unread post.
C32_sweep_attempts_every_nonempty_mailbox ==
    Swept =>
        /\ \A i \in DOMAIN last.attempts :
              get_unread_count(last.before, last.attempts[i].uid) > 0
        /\ \A uid \in DOMAIN last.users :
              get_unread_count(last.before, uid) = 0
                  => get_unread_count(last.after, uid) = 0
        /\ \A uid \in DOMAIN last.users :
              (last.users[uid].cats # {} /\ get_unread_count(last.before, uid) > 0)
                  => Cardinality({i \in DOMAIN last.attempts :
                                     last.attempts[i].uid = uid}) = 1


\* The state right after a send_category_previews returned
Previewed == last.op = "send_category_previews"

\* The previews that reached the subscriber, told from what the call was
\* given: the i-th registered source of the selected categories is shown
\* when its host serves at least one entry and the subscriber can be
\* reached at that moment.
shown_previews ==
    LET rows == preview_rows(last.categories, last.storage)
    IN  {i \in DOMAIN rows :
            /\ upstream[rows[i][2]].up /\ upstream[rows[i][2]].entries # <<>>
            /\ last.dm[i]}

\* C38: send_category_previews, and every send_latest_feed_preview it
\* calls, leaves every watermark and every mailbox as it was, so the next
\* poll of a source marks the entries it would have marked without the
\* preview; and it returns the number of sources whose preview reached
\* the subscriber.
C38_preview_changes_nothing ==
    Previewed =>
        /\ last.after = last.before
        /\ unread_posts = last.mailbox_before
        /\ \A url \in Urls :
              new_entries_of(get_last_seen(last_seen, url), upstream[url].entries)
                  = new_entries_of(get_last_seen(last.before, url), upstream[url].entries)
        /\ last.ret = Cardinality(shown_previews)

\* Two previews of a source that a poll has seen and that has published
\* since: one reached the subscriber, the other did not
C38_witness ==
    /\ Previewed
    /\ Len(last.previews) = 2
    /\ last.ret = 1
    /\ \E url \in Urls :
          /\ last.before[url] # None
          /\ upstream[url].up /\ upstream[url].entries # <<>>
          /\ last.before[url] # get_entry_id(upstream[url].entries[1])
          /\ last.after[url] = last.before[url]


====
